---- MODULE Spec2Model ----
(***************************************************************************)
(* Job Skill Architecture API (src/api/index.py).                          *)
(*                                                                         *)
(* The catalog (sample_jobs, sample_skills) is built once at import; every *)
(* endpoint handler is an `async def` without an await, so the event loop  *)
(* runs each handler to completion before the next one starts.  Each       *)
(* handler is therefore one action.  Every client sends one request; the   *)
(* requests are handled in any order, and `served[c]` records client c's   *)
(* request with the response it got.                                       *)
(*                                                                         *)
(* Representation.  A Python str on which the code computes (split, lower, *)
(* upper, replace, slicing, f-string interpolation) is a sequence of       *)
(* one-character strings.  Text the code only copies (descriptions, dates, *)
(* the static tables) is an opaque TLA+ string.  Optional[T] is a sequence *)
(* of length 0 (None) or 1 (<<x>>).                                        *)
(***************************************************************************)
EXTENDS Integers, Sequences, FiniteSets, TLC

VARIABLES sample_jobs, sample_skills, served

vars == <<sample_jobs, sample_skills, served>>

(***************************************************************************)
(* Bounds of the model.                                                    *)
(***************************************************************************)
\* Number of clients, each sending one request.
NumClients == 2
\* Longest skill list of a job of the generic catalog (SpecGen).
MaxSkills == 2

Clients == 1..NumClients

(***************************************************************************)
(* Python str / list primitives, as the interpreter computes them.         *)
(***************************************************************************)
UpperLetters ==
  <<"A","B","C","D","E","F","G","H","I","J","K","L","M",
    "N","O","P","Q","R","S","T","U","V","W","X","Y","Z">>

LowerLetters ==
  <<"a","b","c","d","e","f","g","h","i","j","k","l","m",
    "n","o","p","q","r","s","t","u","v","w","x","y","z">>

DigitChars == <<"0","1","2","3","4","5","6","7","8","9">>

\* Characters str.split() without arguments treats as separators.
Whitespace == {" "}

Min(S) == CHOOSE x \in S : \A y \in S : x <= y

\* The case mappings of the ASCII letters; every other character maps to itself.
ToLower == [ch \in {UpperLetters[k] : k \in 1..26} |->
              LowerLetters[CHOOSE k \in 1..26 : UpperLetters[k] = ch]]

ToUpper == [ch \in {LowerLetters[k] : k \in 1..26} |->
              UpperLetters[CHOOSE k \in 1..26 : LowerLetters[k] = ch]]

\* str.lower()
lower(s) == [i \in DOMAIN s |-> IF s[i] \in DOMAIN ToLower THEN ToLower[s[i]] ELSE s[i]]

\* str.upper()
upper(s) == [i \in DOMAIN s |-> IF s[i] \in DOMAIN ToUpper THEN ToUpper[s[i]] ELSE s[i]]

\* str.replace(old, new) for one-character old and new
replace(s, old, new) == [i \in DOMAIN s |-> IF s[i] = old THEN new ELSE s[i]]

\* s[:n]
take(s, n) == SubSeq(s, 1, IF n < Len(s) THEN n ELSE Len(s))

\* str.split(sep) for a one-character sep: n separators give n+1 parts.
RECURSIVE split(_, _)
split(s, sep) ==
  LET hits == {i \in DOMAIN s : s[i] = sep}
  IN IF hits = {}
     THEN <<s>>
     ELSE LET i == Min(hits)
          IN <<SubSeq(s, 1, i - 1)>> \o split(SubSeq(s, i + 1, Len(s)), sep)

\* str.split(): runs of whitespace separate words, no empty word is returned.
RECURSIVE split_words(_)
split_words(s) ==
  LET starts == {i \in DOMAIN s : s[i] \notin Whitespace}
  IN IF starts = {}
     THEN <<>>
     ELSE LET b == Min(starts)
              stops == {i \in b..Len(s) : s[i] \in Whitespace}
              e == IF stops = {} THEN Len(s) + 1 ELSE Min(stops)
          IN <<SubSeq(s, b, e - 1)>> \o split_words(SubSeq(s, e, Len(s)))

\* ''.join(parts)
RECURSIVE join(_)
join(parts) == IF parts = <<>> THEN <<>> ELSE Head(parts) \o join(Tail(parts))

\* str(n) for n >= 0
RECURSIVE str_int(_)
str_int(n) ==
  IF n < 10 THEN <<DigitChars[n + 1]>>
  ELSE str_int(n \div 10) \o <<DigitChars[(n % 10) + 1]>>

\* f"{n:03d}": zero-padded to at least three digits
format_03d(n) ==
  LET d == str_int(n)
  IN IF Len(d) >= 3 THEN d ELSE [i \in 1..(3 - Len(d)) |-> "0"] \o d

\* bool(x) of an Optional[bool]: None and False are falsy.
truthy(flag) == flag = <<TRUE>>

\* bool(x) of an Optional[str] (opaque text): None and "" are falsy.
truthy_text(text) == Len(text) = 1 /\ text[1] # ""

\* bool(x) of an Optional[BaseModel]: any instance is truthy.
present(obj) == Len(obj) = 1

(***************************************************************************)
(* Data models (pydantic constructors with their defaults).                *)
(***************************************************************************)
Identifier(value) ==
  [value |-> value, schemeId |-> "UUID", description |-> <<>>, schemeLink |-> <<>>]

SkillAnnotation(required, preferred, requiredAtHiring) ==
  [required |-> required, preferred |-> preferred,
   requiredAtHiring |-> requiredAtHiring]

JobSkill(name, description, yearsOfExperience, annotation) ==
  [name |-> name, description |-> description,
   yearsOfExperience |-> yearsOfExperience, annotation |-> annotation]

ScaleAnnotation(required, preferred, requiredAtHiring) ==
  [required |-> required, preferred |-> preferred,
   requiredAtHiring |-> requiredAtHiring, acquisitionDifficulty |-> <<>>,
   acquiredInternally |-> <<>>, descriptions |-> <<>>]

AnnotatedDefinedTerm(name, descriptions, annotation) ==
  [name |-> name, termCode |-> <<>>, descriptions |-> descriptions,
   annotation |-> annotation]

JDXOrganization(legalName) ==
  [name |-> <<>>, legalName |-> <<legalName>>, descriptions |-> <<>>]

(***************************************************************************)
(* Sample data.                                                            *)
(***************************************************************************)
\* src/api/index.py:168-177.
SampleSkills ==
  <<
     [name |-> <<"P","y","t","h","o","n"," ","P","r","o","g","r","a","m","m","i","n","g">>,
      description |-> <<"Proficiency in Python programming language">>, yearsOfExperience |-> <<3>>],
     [name |-> <<"F","a","s","t","A","P","I"," ","D","e","v","e","l","o","p","m","e","n","t">>,
      description |-> <<"Experience building REST APIs with FastAPI framework">>, yearsOfExperience |-> <<2>>],
     [name |-> <<"S","Q","L"," ","D","a","t","a","b","a","s","e"," ","D","e","s","i","g","n">>,
      description |-> <<"Ability to design and optimize SQL databases">>, yearsOfExperience |-> <<4>>],
     [name |-> <<"D","o","c","k","e","r"," ","C","o","n","t","a","i","n","e","r","i","z","a","t","i","o","n">>,
      description |-> <<"Experience with containerization using Docker">>, yearsOfExperience |-> <<2>>],
     [name |-> <<"A","W","S"," ","C","l","o","u","d"," ","S","e","r","v","i","c","e","s">>,
      description |-> <<"Knowledge of Amazon Web Services cloud platform">>, yearsOfExperience |-> <<3>>],
     [name |-> <<"G","i","t"," ","V","e","r","s","i","o","n"," ","C","o","n","t","r","o","l">>,
      description |-> <<"Proficiency with Git for version control">>, yearsOfExperience |-> <<5>>],
     [name |-> <<"R","E","S","T","f","u","l"," ","A","P","I"," ","D","e","s","i","g","n">>,
      description |-> <<"Understanding of REST principles and API design">>, yearsOfExperience |-> <<3>>],
     [name |-> <<"P","o","s","t","g","r","e","S","Q","L">>,
      description |-> <<"Experience with PostgreSQL database management">>, yearsOfExperience |-> <<2>>]
  >>

\* src/api/index.py:180-218.  uuid4() is drawn once at import; the value is opaque.
SampleJob1 ==
  [identifiers |-> <<Identifier("uuid4-1")>>,
   hiringOrganization |-> [legalName |-> <<"T","e","c","h","C","o","r","p"," ","S","o","l","u","t","i","o","n","s">>],
   name |-> <<"S","e","n","i","o","r"," ","B","a","c","k","e","n","d"," ","D","e","v","e","l","o","p","e","r">>,
   positionID |-> <<"J","D","X","-","0","0","1">>,
   dateCreated |-> "2024-01-15T10:00:00Z",
   skills |-> <<
      JobSkill(<<"P","y","t","h","o","n"," ","P","r","o","g","r","a","m","m","i","n","g">>,
          <<"Proficiency in Python programming language">>, <<3>>,
          <<SkillAnnotation(<<TRUE>>, <<>>, <<TRUE>>)>>),
      JobSkill(<<"F","a","s","t","A","P","I"," ","D","e","v","e","l","o","p","m","e","n","t">>,
          <<"Experience building REST APIs with FastAPI framework">>, <<2>>,
          <<SkillAnnotation(<<TRUE>>, <<>>, <<TRUE>>)>>),
      JobSkill(<<"S","Q","L"," ","D","a","t","a","b","a","s","e"," ","D","e","s","i","g","n">>,
          <<"Ability to design and optimize SQL databases">>, <<4>>,
          <<SkillAnnotation(<<TRUE>>, <<>>, <<FALSE>>)>>),
      JobSkill(<<"D","o","c","k","e","r"," ","C","o","n","t","a","i","n","e","r","i","z","a","t","i","o","n">>,
          <<"Experience with containerization using Docker">>, <<2>>,
          <<SkillAnnotation(<<>>, <<TRUE>>, <<>>)>>),
      JobSkill(<<"A","W","S"," ","C","l","o","u","d"," ","S","e","r","v","i","c","e","s">>,
          <<"Knowledge of Amazon Web Services cloud platform">>, <<3>>,
          <<SkillAnnotation(<<>>, <<TRUE>>, <<>>)>>)
   >>]

\* src/api/index.py:219-257.  uuid4() is drawn once at import; the value is opaque.
SampleJob2 ==
  [identifiers |-> <<Identifier("uuid4-2")>>,
   hiringOrganization |-> [legalName |-> <<"D","a","t","a","S","y","s","t","e","m","s"," ","I","n","c">>],
   name |-> <<"F","u","l","l"," ","S","t","a","c","k"," ","D","e","v","e","l","o","p","e","r">>,
   positionID |-> <<"J","D","X","-","0","0","2">>,
   dateCreated |-> "2024-02-01T09:30:00Z",
   skills |-> <<
      JobSkill(<<"P","y","t","h","o","n"," ","P","r","o","g","r","a","m","m","i","n","g">>,
          <<"Proficiency in Python programming language">>, <<2>>,
          <<SkillAnnotation(<<TRUE>>, <<>>, <<TRUE>>)>>),
      JobSkill(<<"R","E","S","T","f","u","l"," ","A","P","I"," ","D","e","s","i","g","n">>,
          <<"Understanding of REST principles and API design">>, <<3>>,
          <<SkillAnnotation(<<TRUE>>, <<>>, <<TRUE>>)>>),
      JobSkill(<<"P","o","s","t","g","r","e","S","Q","L">>,
          <<"Experience with PostgreSQL database management">>, <<2>>,
          <<SkillAnnotation(<<TRUE>>, <<>>, <<FALSE>>)>>),
      JobSkill(<<"G","i","t"," ","V","e","r","s","i","o","n"," ","C","o","n","t","r","o","l">>,
          <<"Proficiency with Git for version control">>, <<3>>,
          <<SkillAnnotation(<<>>, <<TRUE>>, <<>>)>>),
      JobSkill(<<"F","a","s","t","A","P","I"," ","D","e","v","e","l","o","p","m","e","n","t">>,
          <<"Experience building REST APIs with FastAPI framework">>, <<1>>,
          <<SkillAnnotation(<<>>, <<TRUE>>, <<>>)>>)
   >>]

\* src/api/index.py:258-296.  uuid4() is drawn once at import; the value is opaque.
SampleJob3 ==
  [identifiers |-> <<Identifier("uuid4-3")>>,
   hiringOrganization |-> [legalName |-> <<"C","l","o","u","d","T","e","c","h"," ","I","n","n","o","v","a","t","i","o","n","s">>],
   name |-> <<"D","e","v","O","p","s"," ","E","n","g","i","n","e","e","r">>,
   positionID |-> <<"J","D","X","-","0","0","3">>,
   dateCreated |-> "2024-02-10T14:20:00Z",
   skills |-> <<
      JobSkill(<<"D","o","c","k","e","r"," ","C","o","n","t","a","i","n","e","r","i","z","a","t","i","o","n">>,
          <<"Experience with containerization using Docker">>, <<3>>,
          <<SkillAnnotation(<<TRUE>>, <<>>, <<TRUE>>)>>),
      JobSkill(<<"A","W","S"," ","C","l","o","u","d"," ","S","e","r","v","i","c","e","s">>,
          <<"Knowledge of Amazon Web Services cloud platform">>, <<4>>,
          <<SkillAnnotation(<<TRUE>>, <<>>, <<TRUE>>)>>),
      JobSkill(<<"G","i","t"," ","V","e","r","s","i","o","n"," ","C","o","n","t","r","o","l">>,
          <<"Proficiency with Git for version control">>, <<4>>,
          <<SkillAnnotation(<<TRUE>>, <<>>, <<TRUE>>)>>),
      JobSkill(<<"P","y","t","h","o","n"," ","P","r","o","g","r","a","m","m","i","n","g">>,
          <<"Proficiency in Python programming language">>, <<2>>,
          <<SkillAnnotation(<<>>, <<TRUE>>, <<>>)>>),
      JobSkill(<<"S","Q","L"," ","D","a","t","a","b","a","s","e"," ","D","e","s","i","g","n">>,
          <<"Ability to design and optimize SQL databases">>, <<2>>,
          <<SkillAnnotation(<<>>, <<TRUE>>, <<>>)>>)
   >>]

\* src/api/index.py:364-381 (JDX-001).
responsibilities_data_1 ==
  <<
     AnnotatedDefinedTerm("Design and develop backend services",
        <<<<"Lead the design and implementation of scalable backend systems using Python and FastAPI.",
            "Architect scalable backend systems",
            "Design system integrations and data flows",
            "Lead technical design discussions and code reviews">>>>, <<>>),
     AnnotatedDefinedTerm("Database management",
        <<<<"Manage and optimize PostgreSQL databases, ensuring data integrity and performance.",
            "Design and optimize database schemas",
            "Implement database migrations and versioning",
            "Monitor and tune database performance">>>>, <<>>),
     AnnotatedDefinedTerm("API development",
        <<<<"Develop and maintain robust RESTful APIs for various client applications.",
            "Design RESTful API endpoints",
            "Implement API versioning and documentation",
            "Ensure API security and authentication">>>>, <<>>),
     AnnotatedDefinedTerm("System Architecture",
        <<<<"Architect scalable backend systems",
            "Design system integrations and data flows",
            "Lead technical design discussions and code reviews">>>>, <<>>)
  >>

\* src/api/index.py:382-393 (JDX-001).
required_experiences_data_1 ==
  <<
     [duration |-> "P5Y", descriptions |-> <<"Backend software development experience">>,
      experienceCategories |-> <<[descriptions |-> <<"Work Experience">>]>>],
     [duration |-> "P3Y", descriptions |-> <<"API development and RESTful service design">>,
      experienceCategories |-> <<[descriptions |-> <<"Work Experience">>]>>]
  >>

\* src/api/index.py:394-399 (JDX-001).
required_credentials_data_1 ==
  <<
     [programConcentration |-> "Computer Science", descriptions |-> <<"BS">>]
  >>

\* src/api/index.py:401-414 (JDX-002).
responsibilities_data_2 ==
  <<
     AnnotatedDefinedTerm("Full Stack Development",
        <<<<"Develop both frontend and backend components of web applications",
            "Create responsive user interfaces and RESTful APIs",
            "Integrate frontend and backend systems">>>>, <<>>),
     AnnotatedDefinedTerm("Collaborate with design team",
        <<<<"Work closely with designers to translate mockups into functional web applications",
            "Participate in design reviews and provide technical feedback",
            "Ensure UI/UX best practices">>>>, <<>>),
     AnnotatedDefinedTerm("Maintain existing codebase",
        <<<<"Debug and improve existing features, ensuring high code quality",
            "Refactor legacy code",
            "Write and maintain unit tests">>>>, <<>>)
  >>

\* src/api/index.py:415-426 (JDX-002).
required_experiences_data_2 ==
  <<
     [duration |-> "P3Y", descriptions |-> <<"Full-stack web development">>,
      experienceCategories |-> <<[descriptions |-> <<"Work Experience">>]>>],
     [duration |-> "P2Y", descriptions |-> <<"Frontend framework experience (e.g., React, Vue)">>,
      experienceCategories |-> <<[descriptions |-> <<"Work Experience">>]>>]
  >>

\* src/api/index.py:427-432 (JDX-002).
required_credentials_data_2 ==
  <<
     [programConcentration |-> "Software Engineering", descriptions |-> <<"BS">>]
  >>

\* src/api/index.py:434-447 (JDX-003).
responsibilities_data_3 ==
  <<
     AnnotatedDefinedTerm("Manage CI/CD pipelines",
        <<<<"Oversee and optimize continuous integration and continuous deployment pipelines",
            "Automate build, test, and deployment processes",
            "Monitor pipeline performance and reliability">>>>, <<>>),
     AnnotatedDefinedTerm("Cloud infrastructure management",
        <<<<"Manage and provision cloud resources on AWS using Infrastructure as Code",
            "Design and implement scalable cloud architectures",
            "Optimize cloud costs and resource utilization">>>>, <<>>),
     AnnotatedDefinedTerm("Container orchestration",
        <<<<"Implement and maintain Docker and Kubernetes solutions",
            "Manage containerized applications",
            "Ensure container security and best practices">>>>, <<>>)
  >>

\* src/api/index.py:448-459 (JDX-003).
required_experiences_data_3 ==
  <<
     [duration |-> "P4Y", descriptions |-> <<"DevOps or infrastructure engineering experience">>,
      experienceCategories |-> <<[descriptions |-> <<"Work Experience">>]>>],
     [duration |-> "P3Y", descriptions |-> <<"AWS cloud services management">>,
      experienceCategories |-> <<[descriptions |-> <<"Work Experience">>]>>]
  >>

\* src/api/index.py:460-465 (JDX-003).
required_credentials_data_3 ==
  <<
     [programConcentration |-> "Cloud Computing", descriptions |-> <<"AWS Certified DevOps Engineer">>]
  >>

(***************************************************************************)
(* HTTP outcomes.                                                          *)
(***************************************************************************)
\* A handler that returns: FastAPI answers 200 with the returned model.
Ok(body) == [status_code |-> 200, detail |-> <<>>, body |-> <<body>>]

\* raise HTTPException(status_code=..., detail=...)
HTTPException(status_code, detail) ==
  [status_code |-> status_code, detail |-> detail, body |-> <<>>]

S_JobWithID == <<"J","o","b"," ","w","i","t","h"," ","I","D"," ">>

S_JobWithIdentifier ==
  <<"J","o","b"," ","w","i","t","h"," ","i","d","e","n","t","i","f","i","e","r"," ">>

S_NotFound == <<" ","n","o","t"," ","f","o","u","n","d">>

S_SkillQuote == <<"S","k","i","l","l"," ","'">>

S_QuoteNotFound == <<"'"," ","n","o","t"," ","f","o","u","n","d">>

S_PositionAt == <<"P","o","s","i","t","i","o","n"," ","a","t"," ">>

S_PositionRequiring ==
  <<" ","p","o","s","i","t","i","o","n"," ","r","e","q","u","i","r","i","n","g"," ",
    "v","a","r","i","o","u","s"," ","t","e","c","h","n","i","c","a","l"," ",
    "s","k","i","l","l","s">>

S_SkillsBase ==
  <<"h","t","t","p","s",":","/","/","e","x","a","m","p","l","e",".","c","o","m","/",
    "s","k","i","l","l","s","/">>

S_JobsBase ==
  <<"h","t","t","p","s",":","/","/","a","p","i",".","h","r","o","p","e","n",
    "s","t","a","n","d","a","r","d","s",".","o","r","g","/","j","e","d","x","/",
    "j","o","b","s","/">>

S_JDX001 == <<"J","D","X","-","0","0","1">>
S_JDX002 == <<"J","D","X","-","0","0","2">>
S_JDX003 == <<"J","D","X","-","0","0","3">>

\* Faulty variant: the detail names no ID.
job_not_found_no_id(job_id) ==
  HTTPException(404, <<"J","o","b">> \o S_NotFound)

\* raise HTTPException(status_code=404, detail=f"Job with ID {job_id} not found")
job_not_found(job_id) ==
  HTTPException(404, S_JobWithID \o job_id \o S_NotFound)

\* Faulty variant: a missing skill reported as a bad request.
skill_not_found_400(skill_name) ==
  HTTPException(400, S_SkillQuote \o skill_name \o S_QuoteNotFound)

\* raise HTTPException(status_code=404, detail=f"Skill '{skill_name}' not found")
skill_not_found(skill_name) ==
  HTTPException(404, S_SkillQuote \o skill_name \o S_QuoteNotFound)

\* raise HTTPException(status_code=404,
\*                     detail=f"Job with identifier {identifier} not found")
identifier_not_found(identifier) ==
  HTTPException(404, S_JobWithIdentifier \o identifier \o S_NotFound)

(***************************************************************************)
(* Catalog lookup.                                                         *)
(***************************************************************************)
\* next((j for j in sample_jobs if j.positionID == job_id), None)
find_job(jobs, job_id) ==
  LET hits == {i \in DOMAIN jobs : jobs[i].positionID = job_id}
  IN IF hits = {} THEN <<>> ELSE <<jobs[Min(hits)]>>

\* Faulty variant: the comparison is case-sensitive.
skill_name_matches_exact(s, skill_name) == s.name = skill_name

\* s.name.lower() == skill_name.lower()
skill_name_matches(s, skill_name) == lower(s.name) = lower(skill_name)

\* next((s for s in sample_skills if s.name.lower() == skill_name.lower()), None)
find_skill(skills, skill_name) ==
  LET hits == {i \in DOMAIN skills : skill_name_matches(skills[i], skill_name)}
  IN IF hits = {} THEN <<>> ELSE <<skills[Min(hits)]>>

(***************************************************************************)
(* Job -> JobPosting (JEDx).                                               *)
(***************************************************************************)
\* Faulty variant: the terms are collected in reverse order.
posting_skills_reversed(job) ==
  [i \in DOMAIN job.skills |->
     LET skill == job.skills[Len(job.skills) + 1 - i]
     IN AnnotatedDefinedTerm(
          skill.name,
          IF truthy_text(skill.description) THEN <<<<skill.description[1]>>>> ELSE <<>>,
          IF present(skill.annotation)
          THEN <<ScaleAnnotation(skill.annotation[1].required,
                                 skill.annotation[1].preferred,
                                 skill.annotation[1].requiredAtHiring)>>
          ELSE <<>>)]

\* Faulty variant: preferred is copied from required.
posting_skills_flags_crossed(job) ==
  [i \in DOMAIN job.skills |->
     LET skill == job.skills[i]
     IN AnnotatedDefinedTerm(
          skill.name,
          IF truthy_text(skill.description) THEN <<<<skill.description[1]>>>> ELSE <<>>,
          IF present(skill.annotation)
          THEN <<ScaleAnnotation(skill.annotation[1].required,
                                 skill.annotation[1].required,
                                 skill.annotation[1].requiredAtHiring)>>
          ELSE <<>>)]

\* The loop over job.skills: one AnnotatedDefinedTerm appended per JobSkill.
posting_skills(job) ==
  [i \in DOMAIN job.skills |->
     LET skill == job.skills[i]
     IN AnnotatedDefinedTerm(
          skill.name,
          IF truthy_text(skill.description) THEN <<<<skill.description[1]>>>> ELSE <<>>,
          IF present(skill.annotation)
          THEN <<ScaleAnnotation(skill.annotation[1].required,
                                 skill.annotation[1].preferred,
                                 skill.annotation[1].requiredAtHiring)>>
          ELSE <<>>)]

\* Faulty variant: an ID outside the chain gets the first job's responsibilities.
responsibilities_data_fallback(positionID) ==
  IF positionID = S_JDX002 THEN responsibilities_data_2
  ELSE IF positionID = S_JDX003 THEN responsibilities_data_3
  ELSE responsibilities_data_1

\* The if/elif chain on job.positionID; the lists stay [] for any other ID.
responsibilities_data(positionID) ==
  IF positionID = S_JDX001 THEN responsibilities_data_1
  ELSE IF positionID = S_JDX002 THEN responsibilities_data_2
  ELSE IF positionID = S_JDX003 THEN responsibilities_data_3
  ELSE <<>>

required_experiences_data(positionID) ==
  IF positionID = S_JDX001 THEN required_experiences_data_1
  ELSE IF positionID = S_JDX002 THEN required_experiences_data_2
  ELSE IF positionID = S_JDX003 THEN required_experiences_data_3
  ELSE <<>>

required_credentials_data(positionID) ==
  IF positionID = S_JDX001 THEN required_credentials_data_1
  ELSE IF positionID = S_JDX002 THEN required_credentials_data_2
  ELSE IF positionID = S_JDX003 THEN required_credentials_data_3
  ELSE <<>>

\* Faulty variant: title and postingID are taken from the organization and the
\* first identifier instead of the job's name and positionID.
transform_job_to_posting_misaliased(job) ==
  [identifiers |-> job.identifiers,
   name |-> <<job.name>>,
   title |-> <<job.hiringOrganization.legalName>>,
   positionID |-> <<job.positionID>>,
   postingID |-> <<<<job.identifiers[1].value>>>>,
   hiringOrganization |-> <<JDXOrganization(job.hiringOrganization.legalName)>>,
   dateCreated |-> <<job.dateCreated>>,
   skills |-> posting_skills(job),
   employerOverview |-> <<S_PositionAt \o job.hiringOrganization.legalName>>,
   qualificationSummary |-> <<job.name \o S_PositionRequiring>>,
   responsibilities |-> responsibilities_data(job.positionID),
   requiredExperiences |-> required_experiences_data(job.positionID),
   requiredCredentials |-> required_credentials_data(job.positionID)]

\* The JobPosting fields the function passes; every other field of the
\* schema keeps its default (None or []).
transform_job_to_posting(job) ==
  [identifiers |-> job.identifiers,
   name |-> <<job.name>>,
   title |-> <<job.name>>,
   positionID |-> <<job.positionID>>,
   postingID |-> <<job.positionID>>,
   hiringOrganization |-> <<JDXOrganization(job.hiringOrganization.legalName)>>,
   dateCreated |-> <<job.dateCreated>>,
   skills |-> posting_skills(job),
   employerOverview |-> <<S_PositionAt \o job.hiringOrganization.legalName>>,
   qualificationSummary |-> <<job.name \o S_PositionRequiring>>,
   responsibilities |-> responsibilities_data(job.positionID),
   requiredExperiences |-> required_experiences_data(job.positionID),
   requiredCredentials |-> required_credentials_data(job.positionID)]

(***************************************************************************)
(* Required / recommended partition.                                       *)
(***************************************************************************)
\* Faulty variant: a skill counts as required only when it is required at hiring.
is_required_at_hiring_only(skill) ==
  /\ present(skill.annotation)
  /\ truthy(skill.annotation[1].required)
  /\ truthy(skill.annotation[1].requiredAtHiring)

\* skill.annotation and skill.annotation.required
is_required(skill) ==
  /\ present(skill.annotation)
  /\ truthy(skill.annotation[1].required)

\* Faulty variant: the `and not skill.annotation.required` conjunct is lost.
is_recommended_not_exclusive(skill) ==
  /\ present(skill.annotation)
  /\ truthy(skill.annotation[1].preferred)

\* skill.annotation and skill.annotation.preferred and not skill.annotation.required
is_recommended(skill) ==
  /\ present(skill.annotation)
  /\ truthy(skill.annotation[1].preferred)
  /\ ~truthy(skill.annotation[1].required)

(***************************************************************************)
(* Job -> SkillsResponse (HR-Open Skills API).                             *)
(***************************************************************************)
\* Faulty variant: the first branch tests preferred alone.
skill_status_preferred_first(annotation) ==
  IF present(annotation)
  THEN IF truthy(annotation[1].preferred)
       THEN [validation_status |-> "Provisional", proficiency_name |-> "Developing"]
       ELSE IF truthy(annotation[1].required)
            THEN IF truthy(annotation[1].requiredAtHiring)
                 THEN [validation_status |-> "Validated", proficiency_name |-> "Advanced"]
                 ELSE [validation_status |-> "Validated", proficiency_name |-> "Proficient"]
            ELSE [validation_status |-> "Validated", proficiency_name |-> "Proficient"]
  ELSE [validation_status |-> "Validated", proficiency_name |-> "Proficient"]

\* Faulty variant: a required skill not required at hiring is only provisional.
skill_status_hiring_gate(annotation) ==
  IF present(annotation)
  THEN IF truthy(annotation[1].required) /\ truthy(annotation[1].requiredAtHiring)
       THEN [validation_status |-> "Validated", proficiency_name |-> "Advanced"]
       ELSE IF truthy(annotation[1].preferred) \/ truthy(annotation[1].required)
            THEN [validation_status |-> "Provisional", proficiency_name |-> "Developing"]
            ELSE [validation_status |-> "Validated", proficiency_name |-> "Proficient"]
  ELSE [validation_status |-> "Validated", proficiency_name |-> "Proficient"]

\* Faulty variant: requiredAtHiring is not consulted.
skill_status_never_advanced(annotation) ==
  IF present(annotation)
  THEN IF truthy(annotation[1].preferred) /\ ~truthy(annotation[1].required)
       THEN [validation_status |-> "Provisional", proficiency_name |-> "Developing"]
       ELSE [validation_status |-> "Validated", proficiency_name |-> "Proficient"]
  ELSE [validation_status |-> "Validated", proficiency_name |-> "Proficient"]

\* validation_status / proficiency_name: the defaults, then the if/elif on
\* the annotation.
skill_status(annotation) ==
  IF present(annotation)
  THEN IF truthy(annotation[1].preferred) /\ ~truthy(annotation[1].required)
       THEN [validation_status |-> "Provisional", proficiency_name |-> "Developing"]
       ELSE IF truthy(annotation[1].required)
            THEN IF truthy(annotation[1].requiredAtHiring)
                 THEN [validation_status |-> "Validated", proficiency_name |-> "Advanced"]
                 ELSE [validation_status |-> "Validated", proficiency_name |-> "Proficient"]
            ELSE [validation_status |-> "Validated", proficiency_name |-> "Proficient"]
  ELSE [validation_status |-> "Validated", proficiency_name |-> "Proficient"]

\* job_skill.name.lower().replace(' ', '-')
skill_slug(name) == replace(lower(name), " ", "-")

\* Faulty variant: the sequence number counts from zero.
coded_notation_zero_based(name, n) ==
  LET words == take(split_words(name), 2)
  IN join([i \in DOMAIN words |-> upper(take(words[i], 2))]) \o <<"-">>
       \o format_03d(n - 1)

\* ''.join([word[:2].upper() for word in name.split()[:2]]) + f"-{n:03d}"
coded_notation(name, n) ==
  LET words == take(split_words(name), 2)
  IN join([i \in DOMAIN words |-> upper(take(words[i], 2))]) \o <<"-">> \o format_03d(n)

SkillModel(id, name, description, codedNotation) ==
  [id |-> id, type |-> "schema:Skill", name |-> <<name>>,
   description |-> description, codedNotation |-> <<codedNotation>>,
   ctid |-> <<>>, keywords |-> <<>>, verifications |-> <<>>]

ProficiencyLevel(name) == [type |-> "schema:DefinedTerm", name |-> name]

SkillAssertion(skill, proficiencyLevel, validationStatus, validFrom) ==
  [type |-> "schema:SkillAssertion", skill |-> skill,
   proficiencyLevel |-> proficiencyLevel, validationStatus |-> validationStatus,
   validFrom |-> validFrom, validUntil |-> <<>>]

ReferencedObject(id, type) == [id |-> id, type |-> <<type>>]

\* The default JSON-LD context of SkillsResponse, the same in every response.
SkillsContext == "SkillsResponse.context"

SkillsResponse(object, skills) ==
  [context |-> SkillsContext, object |-> <<object>>,
   proficiencyScales |-> <<>>, skills |-> skills]

\* The loop over job.skills from its k-th skill on; skill_assertions is the
\* list built so far, whose length numbers the next assertion.
RECURSIVE build_skill_assertions(_, _, _)
build_skill_assertions(job, k, skill_assertions) ==
  IF k > Len(job.skills)
  THEN skill_assertions
  ELSE LET job_skill == job.skills[k]
           status == skill_status(job_skill.annotation)
           skill_id == S_SkillsBase \o skill_slug(job_skill.name)
           notation == coded_notation(job_skill.name, Len(skill_assertions) + 1)
           skill_assertion ==
             SkillAssertion(
               SkillModel(skill_id, job_skill.name, job_skill.description, notation),
               ProficiencyLevel(status.proficiency_name),
               status.validation_status,
               job.dateCreated)
       IN build_skill_assertions(job, k + 1, Append(skill_assertions, skill_assertion))

\* Faulty variant: the identifier is used whole.
resolve_job_id_whole(identifier) == identifier

\* identifier.split("/")[-1] if "/" in identifier else identifier
resolve_job_id(identifier) ==
  IF \E i \in DOMAIN identifier : identifier[i] = "/"
  THEN LET parts == split(identifier, "/") IN parts[Len(parts)]
  ELSE identifier

(***************************************************************************)
(* Endpoint handlers: the response to one request, given the catalog.      *)
(***************************************************************************)
\* GET /api/jobs
get_all_jobs_response(jobs) == Ok(jobs)

\* GET /api/jobs/{job_id}
get_job_by_id_response(jobs, job_id) ==
  LET job == find_job(jobs, job_id)
  IN IF ~present(job)
     THEN job_not_found(job_id)
     ELSE Ok(transform_job_to_posting(job[1]))

\* GET /api/jobs/{job_id}/skills
get_job_with_skills_architecture_response(jobs, job_id) ==
  LET job == find_job(jobs, job_id)
  IN IF ~present(job)
     THEN job_not_found(job_id)
     ELSE Ok([job |-> job[1],
              required_skills |-> SelectSeq(job[1].skills, is_required),
              recommended_skills |-> SelectSeq(job[1].skills, is_recommended)])

\* GET /api/skills
get_all_skills_response(skills) == Ok(skills)

\* GET /api/skills/{skill_name}
get_skill_by_name_response(skills, skill_name) ==
  LET skill == find_skill(skills, skill_name)
  IN IF ~present(skill)
     THEN skill_not_found(skill_name)
     ELSE Ok(skill[1])

\* GET /api/jobs/{job_id}/skills/required
get_required_skills_response(jobs, job_id) ==
  LET job == find_job(jobs, job_id)
  IN IF ~present(job)
     THEN job_not_found(job_id)
     ELSE Ok(SelectSeq(job[1].skills, is_required))

\* GET /api/jobs/{job_id}/skills/recommended
get_recommended_skills_response(jobs, job_id) ==
  LET job == find_job(jobs, job_id)
  IN IF ~present(job)
     THEN job_not_found(job_id)
     ELSE Ok(SelectSeq(job[1].skills, is_recommended))

\* GET /skills?identifier=...
get_skills_api_response(jobs, identifier) ==
  LET job_id == resolve_job_id(identifier)
      job == find_job(jobs, job_id)
  IN IF ~present(job)
     THEN identifier_not_found(identifier)
     ELSE Ok(SkillsResponse(
               ReferencedObject(S_JobsBase \o job[1].positionID, "schema:JobPosting"),
               build_skill_assertions(job[1], 1, <<>>)))

(***************************************************************************)
(* Requests.                                                               *)
(***************************************************************************)
\* Position IDs of the catalog.
CatalogIds == {sample_jobs[i].positionID : i \in DOMAIN sample_jobs}

\* Position IDs of no job: a fresh one, and a known one in another case.
UnknownJobIds ==
  {<<"J","D","X","-","0","0","4">>, <<"j","d","x","-","0","0","1">>}

\* Path parameter {job_id}.
JobIdInputs == CatalogIds \cup UnknownJobIds

\* URI prefixes ending in '/'.
UriPrefixes ==
  {<<"h","t","t","p","s",":","/","/","x",".","e","x","a","m","p","l","e","/",
     "j","e","d","x","/","j","o","b","s","/">>,
   <<"/">>}

\* Query parameter identifier: a bare ID, a URI ending in the ID, or a URI
\* with a trailing '/'.
IdentifierInputs ==
  JobIdInputs
    \cup {p \o id : p \in UriPrefixes, id \in JobIdInputs}
    \cup {S_JDX001 \o <<"/">>}

\* Path parameter {skill_name}.
SkillNameInputs ==
  {<<"P","y","t","h","o","n"," ","P","r","o","g","r","a","m","m","i","n","g">>,
   <<"P","Y","T","H","O","N"," ","P","R","O","G","R","A","M","M","I","N","G">>,
   <<"p","y","t","h","o","n"," ","p","r","o","g","r","a","m","m","i","n","g">>,
   <<"p","o","s","t","g","r","e","s","q","l">>,
   <<"P","y","t","h","o","n">>}

\* Client c's request is handled: it had none handled before, and the
\* exchange is recorded.
Serve(c, endpoint, arg, response) ==
  /\ served[c] = <<>>
  /\ served' = [served EXCEPT ![c] =
                  <<[endpoint |-> endpoint, arg |-> arg, response |-> response]>>]

(***************************************************************************)
(* Actions: one per endpoint handler.                                      *)
(***************************************************************************)
get_all_jobs(c) ==
  /\ Serve(c, "get_all_jobs", <<>>, get_all_jobs_response(sample_jobs))
  /\ UNCHANGED <<sample_jobs, sample_skills>>

get_job_by_id(c) ==
  \E job_id \in JobIdInputs :
    /\ Serve(c, "get_job_by_id", job_id, get_job_by_id_response(sample_jobs, job_id))
    /\ UNCHANGED <<sample_jobs, sample_skills>>

get_job_with_skills_architecture(c) ==
  \E job_id \in JobIdInputs :
    /\ Serve(c, "get_job_with_skills_architecture", job_id,
             get_job_with_skills_architecture_response(sample_jobs, job_id))
    /\ UNCHANGED <<sample_jobs, sample_skills>>

get_all_skills(c) ==
  /\ Serve(c, "get_all_skills", <<>>, get_all_skills_response(sample_skills))
  /\ UNCHANGED <<sample_jobs, sample_skills>>

get_skill_by_name(c) ==
  \E skill_name \in SkillNameInputs :
    /\ Serve(c, "get_skill_by_name", skill_name,
             get_skill_by_name_response(sample_skills, skill_name))
    /\ UNCHANGED <<sample_jobs, sample_skills>>

\* Faulty variant: the handler filters job.skills in place.
get_required_skills_in_place(c) ==
  \E job_id \in JobIdInputs :
    /\ Serve(c, "get_required_skills", job_id,
             get_required_skills_response(sample_jobs, job_id))
    /\ sample_jobs' =
         [i \in DOMAIN sample_jobs |->
            IF sample_jobs[i].positionID = job_id
            THEN [sample_jobs[i] EXCEPT !.skills = SelectSeq(@, is_required)]
            ELSE sample_jobs[i]]
    /\ UNCHANGED sample_skills

get_required_skills(c) ==
  \E job_id \in JobIdInputs :
    /\ Serve(c, "get_required_skills", job_id,
             get_required_skills_response(sample_jobs, job_id))
    /\ UNCHANGED <<sample_jobs, sample_skills>>

get_recommended_skills(c) ==
  \E job_id \in JobIdInputs :
    /\ Serve(c, "get_recommended_skills", job_id,
             get_recommended_skills_response(sample_jobs, job_id))
    /\ UNCHANGED <<sample_jobs, sample_skills>>

get_skills_api(c) ==
  \E identifier \in IdentifierInputs :
    /\ Serve(c, "get_skills_api", identifier,
             get_skills_api_response(sample_jobs, identifier))
    /\ UNCHANGED <<sample_jobs, sample_skills>>

(***************************************************************************)
(* Spec: the program as deployed, with the sample catalog.                 *)
(***************************************************************************)
Init ==
  /\ sample_jobs = <<SampleJob1, SampleJob2, SampleJob3>>
  /\ sample_skills = SampleSkills
  /\ served = [c \in Clients |-> <<>>]

Next ==
  \E c \in Clients :
    \/ get_all_jobs(c)
    \/ get_job_by_id(c)
    \/ get_job_with_skills_architecture(c)
    \/ get_all_skills(c)
    \/ get_skill_by_name(c)
    \/ get_required_skills(c)
    \/ get_recommended_skills(c)
    \/ get_skills_api(c)

Spec == Init /\ [][Next]_vars

(***************************************************************************)
(* SpecGen: the same handlers over a catalog of one job whose skills carry *)
(* every annotation shape, and one client.                                 *)
(***************************************************************************)
OptionalBool == {<<>>, <<TRUE>>, <<FALSE>>}

\* Optional[SkillAnnotation]: None, or each flag None / True / False.
AnnotationShapes ==
  {<<>>} \cup {<<SkillAnnotation(r, p, h)>> :
                 r \in OptionalBool, p \in OptionalBool, h \in OptionalBool}

\* Jobs like the first sample job, with up to MaxSkills skills named after
\* the catalog's skills in order and annotated in every way.
GenericJobs ==
  {[SampleJob1 EXCEPT !.skills =
      [i \in DOMAIN shapes |->
         JobSkill(SampleSkills[i].name, SampleSkills[i].description,
                  SampleSkills[i].yearsOfExperience, shapes[i])]] :
     shapes \in UNION {[1..n -> AnnotationShapes] : n \in 0..MaxSkills}}

InitGen ==
  /\ sample_jobs \in {<<job>> : job \in GenericJobs}
  /\ sample_skills = SampleSkills
  /\ served = [c \in Clients |-> <<>>]

NextGen ==
  \/ get_all_jobs(1)
  \/ get_job_by_id(1)
  \/ get_job_with_skills_architecture(1)
  \/ get_all_skills(1)
  \/ get_skill_by_name(1)
  \/ get_required_skills(1)
  \/ get_recommended_skills(1)
  \/ get_skills_api(1)

SpecGen == InitGen /\ [][NextGen]_vars

(***************************************************************************)
(* Vocabulary of the properties.                                           *)
(***************************************************************************)
\* Client c's request has been handled by `endpoint`.
Handled(c, endpoint) == served[c] # <<>> /\ served[c][1].endpoint = endpoint

Request(c) == served[c][1].arg

Response(c) == served[c][1].response

\* The catalog job with position ID id (id must be one of CatalogIds).
CatalogJob(id) ==
  sample_jobs[CHOOSE i \in DOMAIN sample_jobs : sample_jobs[i].positionID = id]

\* x is an element of the list seq.
InList(x, seq) == \E i \in DOMAIN seq : seq[i] = x

\* needle occurs in hay as a substring.
Contains(hay, needle) ==
  \E i \in 0..(Len(hay) - Len(needle)) : SubSeq(hay, i + 1, i + Len(needle)) = needle

\* The substring after the final '/', or the whole string when it has none.
AfterFinalSlash(s) ==
  LET hits == {i \in DOMAIN s : s[i] = "/"}
  IN IF hits = {}
     THEN s
     ELSE SubSeq(s, (CHOOSE i \in hits : \A j \in hits : j <= i) + 1, Len(s))

\* a and b are the same letter in either case, or the same character.
SameCharIgnoringCase(a, b) ==
  a = b \/ \E k \in 1..26 : {a, b} = {UpperLetters[k], LowerLetters[k]}

\* a and b are equal ignoring case.
EqualIgnoringCase(a, b) ==
  /\ Len(a) = Len(b)
  /\ \A i \in DOMAIN a : SameCharIgnoringCase(a[i], b[i])

PathJobEndpoints ==
  {"get_job_by_id", "get_job_with_skills_architecture",
   "get_required_skills", "get_recommended_skills"}

(***************************************************************************)
(* C1. In the response of GET /api/jobs/{id}/skills, for every skill of    *)
(* the job and every annotation shape: the skill is in required_skills     *)
(* exactly when its annotation is present with required true; it is in     *)
(* recommended_skills exactly when its annotation is present with          *)
(* preferred true and required not true; it is never in both; with no      *)
(* annotation or neither flag true it is in neither.                       *)
(***************************************************************************)
C1_PartitionByAnnotation ==
  \A c \in Clients :
    (Handled(c, "get_job_with_skills_architecture") /\ Request(c) \in CatalogIds) =>
      /\ Response(c).status_code = 200
      /\ LET body == Response(c).body[1]
             job == CatalogJob(Request(c))
         IN \A i \in DOMAIN job.skills :
              LET skill == job.skills[i]
                  a == skill.annotation
                  required == a # <<>> /\ a[1].required = <<TRUE>>
                  preferred == a # <<>> /\ a[1].preferred = <<TRUE>>
                  inRequired == InList(skill, body.required_skills)
                  inRecommended == InList(skill, body.recommended_skills)
              IN /\ inRequired <=> required
                 /\ inRecommended <=> (preferred /\ ~required)
                 /\ ~(inRequired /\ inRecommended)
                 /\ (~required /\ ~preferred) => (~inRequired /\ ~inRecommended)

\* A job with a skill that is both required and preferred (listed as
\* required only) and a skill without annotation (listed nowhere).
C1_Witness ==
  \E c \in Clients :
    /\ Handled(c, "get_job_with_skills_architecture")
    /\ Response(c).status_code = 200
    /\ LET body == Response(c).body[1]
       IN /\ \E i \in DOMAIN body.job.skills :
               LET skill == body.job.skills[i]
               IN /\ skill.annotation # <<>>
                  /\ skill.annotation[1].required = <<TRUE>>
                  /\ skill.annotation[1].preferred = <<TRUE>>
                  /\ InList(skill, body.required_skills)
                  /\ ~InList(skill, body.recommended_skills)
          /\ \E i \in DOMAIN body.job.skills :
               LET skill == body.job.skills[i]
               IN /\ skill.annotation = <<>>
                  /\ ~InList(skill, body.required_skills)
                  /\ ~InList(skill, body.recommended_skills)

(***************************************************************************)
(* C2. In the response of GET /skills, every skill's (validationStatus,    *)
(* proficiencyLevel.name) is given by the first matching rule of:          *)
(* (1) preferred true and required not true -> (Provisional, Developing);  *)
(* (2) required true and requiredAtHiring true -> (Validated, Advanced);   *)
(* (3) required true -> (Validated, Proficient);                           *)
(* (4) otherwise -> (Validated, Proficient).  No other pair is produced.   *)
(***************************************************************************)
StatusByRule(a) ==
  LET required == a # <<>> /\ a[1].required = <<TRUE>>
      preferred == a # <<>> /\ a[1].preferred = <<TRUE>>
      atHiring == a # <<>> /\ a[1].requiredAtHiring = <<TRUE>>
  IN IF preferred /\ ~required THEN <<"Provisional", "Developing">>
     ELSE IF required /\ atHiring THEN <<"Validated", "Advanced">>
     ELSE IF required THEN <<"Validated", "Proficient">>
     ELSE <<"Validated", "Proficient">>

C2_StatusByFirstMatchingRule ==
  \A c \in Clients :
    (Handled(c, "get_skills_api") /\ Response(c).status_code = 200) =>
      LET assertions == Response(c).body[1].skills
          job == CatalogJob(AfterFinalSlash(Request(c)))
      IN /\ Len(assertions) = Len(job.skills)
         /\ \A i \in DOMAIN assertions :
              LET pair == <<assertions[i].validationStatus,
                            assertions[i].proficiencyLevel.name>>
              IN /\ pair = StatusByRule(job.skills[i].annotation)
                 /\ pair \in {<<"Provisional", "Developing">>,
                              <<"Validated", "Advanced">>,
                              <<"Validated", "Proficient">>}

\* A response with a skill that is preferred, required and required at
\* hiring (Validated, Advanced) next to a preferred-only skill
\* (Provisional, Developing).
C2_Witness ==
  \E c \in Clients :
    /\ Handled(c, "get_skills_api")
    /\ Response(c).status_code = 200
    /\ LET assertions == Response(c).body[1].skills
           job == CatalogJob(AfterFinalSlash(Request(c)))
       IN /\ \E i \in DOMAIN job.skills :
               /\ job.skills[i].annotation =
                    <<SkillAnnotation(<<TRUE>>, <<TRUE>>, <<TRUE>>)>>
               /\ assertions[i].validationStatus = "Validated"
               /\ assertions[i].proficiencyLevel.name = "Advanced"
          /\ \E i \in DOMAIN job.skills :
               /\ job.skills[i].annotation =
                    <<SkillAnnotation(<<FALSE>>, <<TRUE>>, <<>>)>>
               /\ assertions[i].validationStatus = "Provisional"
               /\ assertions[i].proficiencyLevel.name = "Developing"

(***************************************************************************)
(* C3. A request for a position ID that no catalog job has gets, from      *)
(* every job-scoped endpoint (the four under /api/jobs/{id}, and GET       *)
(* /skills, whose requested ID is the identifier's last path segment),     *)
(* 404 with a detail message containing the requested ID and no body.      *)
(***************************************************************************)
C3_UnknownIdIsNotFound ==
  \A c \in Clients :
    /\ (served[c] # <<>> /\ served[c][1].endpoint \in PathJobEndpoints
          /\ Request(c) \notin CatalogIds) =>
         /\ Response(c).status_code = 404
         /\ Contains(Response(c).detail, Request(c))
         /\ Response(c).body = <<>>
    /\ (Handled(c, "get_skills_api")
          /\ AfterFinalSlash(Request(c)) \notin CatalogIds) =>
         /\ Response(c).status_code = 404
         /\ Contains(Response(c).detail, Request(c))
         /\ Contains(Response(c).detail, AfterFinalSlash(Request(c)))
         /\ Response(c).body = <<>>

\* An unknown ID refused by a path endpoint and, given as a URI, by
\* GET /skills.
C3_Witness ==
  \E c1 \in Clients, c2 \in Clients :
    /\ Handled(c1, "get_recommended_skills")
    /\ Request(c1) \notin CatalogIds
    /\ Response(c1).status_code = 404
    /\ Handled(c2, "get_skills_api")
    /\ Len(Request(c2)) > Len(AfterFinalSlash(Request(c2)))
    /\ AfterFinalSlash(Request(c2)) \notin CatalogIds
    /\ AfterFinalSlash(Request(c2)) # <<>>
    /\ Response(c2).status_code = 404

(***************************************************************************)
(* C4. GET /api/jobs/{id} for a position ID of the catalog returns 200     *)
(* with a JobPosting whose positionID and postingID equal the requested    *)
(* ID and whose name and title both equal the job's name.                  *)
(***************************************************************************)
C4_PostingAliases ==
  \A c \in Clients :
    (Handled(c, "get_job_by_id") /\ Request(c) \in CatalogIds) =>
      /\ Response(c).status_code = 200
      /\ LET posting == Response(c).body[1]
         IN /\ posting.positionID = <<Request(c)>>
            /\ posting.postingID = <<Request(c)>>
            /\ posting.name = posting.title
            /\ posting.name = <<CatalogJob(Request(c)).name>>

C4_Witness ==
  \E c \in Clients :
    /\ Handled(c, "get_job_by_id")
    /\ Request(c) = S_JDX002
    /\ Response(c).status_code = 200
    /\ Response(c).body[1].postingID = <<S_JDX002>>

(***************************************************************************)
(* C5. GET /skills resolves its identifier to the substring after the      *)
(* final '/', or to the whole string when it has no '/': the request       *)
(* succeeds exactly when that substring is a catalog position ID P, the    *)
(* referenced object is then .../jedx/jobs/P, and identifier = prefix + P  *)
(* (prefix ending in '/') gets the same response as identifier = P.        *)
(***************************************************************************)
C5_IdentifierResolution ==
  /\ \A c \in Clients :
       Handled(c, "get_skills_api") =>
         /\ Response(c).status_code = 200 <=>
              AfterFinalSlash(Request(c)) \in CatalogIds
         /\ Response(c).status_code = 200 =>
              Response(c).body[1].object[1].id =
                S_JobsBase \o AfterFinalSlash(Request(c))
  /\ \A c1 \in Clients, c2 \in Clients :
       (/\ Handled(c1, "get_skills_api")
        /\ Handled(c2, "get_skills_api")
        /\ Request(c2) \in CatalogIds
        /\ Len(Request(c1)) > Len(Request(c2))
        /\ Request(c1)[Len(Request(c1)) - Len(Request(c2))] = "/"
        /\ SubSeq(Request(c1), Len(Request(c1)) - Len(Request(c2)) + 1,
                  Len(Request(c1))) = Request(c2))
       => Response(c1) = Response(c2)

\* JDX-002 requested as a URI and bare: both answered 200, alike.
C5_Witness ==
  \E c1 \in Clients, c2 \in Clients :
    /\ Handled(c1, "get_skills_api")
    /\ Handled(c2, "get_skills_api")
    /\ Request(c2) = S_JDX002
    /\ Len(Request(c1)) > Len(S_JDX002) + 1
    /\ AfterFinalSlash(Request(c1)) = S_JDX002
    /\ Response(c1).status_code = 200
    /\ Response(c1) = Response(c2)

(***************************************************************************)
(* C6. GET /api/skills/{name} matches the name exactly, ignoring case: a   *)
(* name gets a Skill exactly when it equals a catalog skill's name         *)
(* ignoring case (and gets that skill), and two names equal ignoring case  *)
(* get the same result: the same Skill, or 404 both.                       *)
(***************************************************************************)
C6_SkillLookupIgnoresCase ==
  /\ \A c \in Clients :
       Handled(c, "get_skill_by_name") =>
         /\ Response(c).status_code = 200 <=>
              \E i \in DOMAIN sample_skills :
                EqualIgnoringCase(sample_skills[i].name, Request(c))
         /\ Response(c).status_code = 200 =>
              /\ InList(Response(c).body[1], sample_skills)
              /\ EqualIgnoringCase(Response(c).body[1].name, Request(c))
         /\ Response(c).status_code # 200 =>
              Response(c).status_code = 404 /\ Response(c).body = <<>>
  /\ \A c1 \in Clients, c2 \in Clients :
       (/\ Handled(c1, "get_skill_by_name")
        /\ Handled(c2, "get_skill_by_name")
        /\ EqualIgnoringCase(Request(c1), Request(c2)))
       => /\ Response(c1).status_code = Response(c2).status_code
          /\ Response(c1).body = Response(c2).body

\* The name in upper case and in lower case: the same Skill both times.
C6_Witness ==
  \E c1 \in Clients, c2 \in Clients :
    /\ Handled(c1, "get_skill_by_name")
    /\ Handled(c2, "get_skill_by_name")
    /\ Request(c1) =
         <<"P","Y","T","H","O","N"," ","P","R","O","G","R","A","M","M","I","N","G">>
    /\ Request(c2) =
         <<"p","y","t","h","o","n"," ","p","r","o","g","r","a","m","m","i","n","g">>
    /\ Response(c1).status_code = 200
    /\ Response(c1).body = Response(c2).body
    /\ Response(c1).body[1].name =
         <<"P","y","t","h","o","n"," ","P","r","o","g","r","a","m","m","i","n","g">>

(***************************************************************************)
(* C7. The JobPosting of a job has as many skills as the job, and its      *)
(* i-th skill has the name of the job's i-th JobSkill.                     *)
(***************************************************************************)
C7_PostingSkillNamesInOrder ==
  \A c \in Clients :
    (Handled(c, "get_job_by_id") /\ Request(c) \in CatalogIds) =>
      /\ Response(c).status_code = 200
      /\ LET posting == Response(c).body[1]
             job == CatalogJob(Request(c))
         IN /\ Len(posting.skills) = Len(job.skills)
            /\ \A i \in 1..Len(job.skills) :
                 posting.skills[i].name = job.skills[i].name

\* A posting of a job with at least two, differently named, skills.
C7_Witness ==
  \E c \in Clients :
    /\ Handled(c, "get_job_by_id")
    /\ Response(c).status_code = 200
    /\ Len(Response(c).body[1].skills) >= 2
    /\ Response(c).body[1].skills[1].name # Response(c).body[1].skills[2].name
    /\ Response(c).body[1].skills[2].name = CatalogJob(Request(c)).skills[2].name

(***************************************************************************)
(* C8. The only error outcome is 404 with a detail string, and only for a  *)
(* lookup without a match: a request whose position ID (or resolved        *)
(* identifier) is in the catalog, or whose skill name matches a catalog    *)
(* skill, ends in 200, and /api/jobs and /api/skills always end in 200.    *)
(***************************************************************************)
\* The lookup of client c's request has a match in the catalog.
LookupMatches(c) ==
  LET e == served[c][1]
  IN IF e.endpoint \in PathJobEndpoints THEN e.arg \in CatalogIds
     ELSE IF e.endpoint = "get_skills_api" THEN AfterFinalSlash(e.arg) \in CatalogIds
     ELSE IF e.endpoint = "get_skill_by_name"
          THEN \E i \in DOMAIN sample_skills :
                 EqualIgnoringCase(sample_skills[i].name, e.arg)
     ELSE TRUE

C8_OnlyNotFoundErrors ==
  \A c \in Clients :
    served[c] # <<>> =>
      /\ Response(c).status_code \in {200, 404}
      /\ LookupMatches(c) => Response(c).status_code = 200
      /\ Response(c).status_code = 200 => Len(Response(c).body) = 1
      /\ Response(c).status_code = 404 =>
           /\ ~LookupMatches(c)
           /\ Response(c).body = <<>>
           /\ Response(c).detail # <<>>
      /\ served[c][1].endpoint \in {"get_all_jobs", "get_all_skills"} =>
           Response(c).status_code = 200

\* A skill name without a match refused with 404 while a list endpoint
\* answers 200.
C8_Witness ==
  \E c1 \in Clients, c2 \in Clients :
    /\ Handled(c1, "get_skill_by_name")
    /\ Response(c1).status_code = 404
    /\ Handled(c2, "get_all_skills")
    /\ Response(c2).status_code = 200

(***************************************************************************)
(* C9. No handler modifies the catalog: in every interleaving of requests  *)
(* sample_jobs and sample_skills keep their startup values, and each       *)
(* response is the one the same request gets when it is handled alone,     *)
(* right after startup.                                                    *)
(***************************************************************************)
StartupJobs == <<SampleJob1, SampleJob2, SampleJob3>>

\* The response to client c's request, handled against the startup catalog.
HandledAlone(c) ==
  LET e == served[c][1]
  IN CASE e.endpoint = "get_all_jobs" -> get_all_jobs_response(StartupJobs)
       [] e.endpoint = "get_job_by_id" -> get_job_by_id_response(StartupJobs, e.arg)
       [] e.endpoint = "get_job_with_skills_architecture" ->
            get_job_with_skills_architecture_response(StartupJobs, e.arg)
       [] e.endpoint = "get_all_skills" -> get_all_skills_response(SampleSkills)
       [] e.endpoint = "get_skill_by_name" ->
            get_skill_by_name_response(SampleSkills, e.arg)
       [] e.endpoint = "get_required_skills" ->
            get_required_skills_response(StartupJobs, e.arg)
       [] e.endpoint = "get_recommended_skills" ->
            get_recommended_skills_response(StartupJobs, e.arg)
       [] e.endpoint = "get_skills_api" -> get_skills_api_response(StartupJobs, e.arg)

C9_CatalogIsReadOnly ==
  /\ sample_jobs = StartupJobs
  /\ sample_skills = SampleSkills
  /\ \A c \in Clients : served[c] # <<>> => Response(c) = HandledAlone(c)

\* Two requests about the same job handled one after the other, the
\* second one listing all of the job's skills.
C9_Witness ==
  \E c1 \in Clients, c2 \in Clients :
    /\ Handled(c1, "get_required_skills")
    /\ Request(c1) = S_JDX001
    /\ Handled(c2, "get_all_jobs")
    /\ Len(Response(c2).body[1][1].skills) = 5
    /\ Len(Response(c1).body[1]) = 3

(***************************************************************************)
(* C10. On the sample catalog GET /api/jobs/JDX-001/skills returns         *)
(* required_skills holding exactly Python Programming, FastAPI Development *)
(* and SQL Database Design, and recommended_skills holding exactly Docker  *)
(* Containerization and AWS Cloud Services.                                *)
(***************************************************************************)
\* The names of the skills of a list.
NamesOf(skills) == {skills[i].name : i \in DOMAIN skills}

C10_SampleJob1Partition ==
  \A c \in Clients :
    (Handled(c, "get_job_with_skills_architecture") /\ Request(c) = S_JDX001) =>
      /\ Response(c).status_code = 200
      /\ NamesOf(Response(c).body[1].required_skills) =
           {<<"P","y","t","h","o","n"," ","P","r","o","g","r","a","m","m","i","n","g">>,
            <<"F","a","s","t","A","P","I"," ","D","e","v","e","l","o","p","m","e","n","t">>,
            <<"S","Q","L"," ","D","a","t","a","b","a","s","e"," ","D","e","s","i","g","n">>}
      /\ NamesOf(Response(c).body[1].recommended_skills) =
           {<<"D","o","c","k","e","r"," ","C","o","n","t","a","i","n","e","r","i","z",
              "a","t","i","o","n">>,
            <<"A","W","S"," ","C","l","o","u","d"," ","S","e","r","v","i","c","e","s">>}

C10_Witness ==
  \E c \in Clients :
    /\ Handled(c, "get_job_with_skills_architecture")
    /\ Request(c) = S_JDX001
    /\ Response(c).status_code = 200
    /\ Len(Response(c).body[1].required_skills) = 3
    /\ Len(Response(c).body[1].recommended_skills) = 2

(***************************************************************************)
(* C11. On the sample catalog GET /skills?identifier=JDX-003 returns       *)
(* assertions in which Docker Containerization is Validated with           *)
(* proficiency Advanced and Python Programming is Provisional with         *)
(* proficiency Developing.                                                 *)
(***************************************************************************)
\* The assertions of a list whose skill has the given name.
AssertionsNamed(assertions, name) ==
  {assertions[i] : i \in {j \in DOMAIN assertions : assertions[j].skill.name = <<name>>}}

C11_SampleJob3Assertions ==
  \A c \in Clients :
    (Handled(c, "get_skills_api") /\ AfterFinalSlash(Request(c)) = S_JDX003) =>
      /\ Response(c).status_code = 200
      /\ LET assertions == Response(c).body[1].skills
             docker == AssertionsNamed(assertions,
                         <<"D","o","c","k","e","r"," ","C","o","n","t","a","i","n","e",
                           "r","i","z","a","t","i","o","n">>)
             python == AssertionsNamed(assertions,
                         <<"P","y","t","h","o","n"," ","P","r","o","g","r","a","m","m",
                           "i","n","g">>)
         IN /\ Cardinality(docker) = 1
            /\ \A a \in docker : /\ a.validationStatus = "Validated"
                                 /\ a.proficiencyLevel.name = "Advanced"
            /\ Cardinality(python) = 1
            /\ \A a \in python : /\ a.validationStatus = "Provisional"
                                 /\ a.proficiencyLevel.name = "Developing"

C11_Witness ==
  \E c \in Clients :
    /\ Handled(c, "get_skills_api")
    /\ Request(c) = S_JDX003
    /\ Response(c).status_code = 200
    /\ Response(c).body[1].skills[1].proficiencyLevel.name = "Advanced"
    /\ Response(c).body[1].skills[4].validationStatus = "Provisional"

(***************************************************************************)
(* SpecTransform: transform_job_to_posting applied to the job of a catalog *)
(* of one job, drawn from jobs whose skills carry every description and    *)
(* annotation shape and from the sample jobs under known and unknown       *)
(* position IDs.                                                           *)
(***************************************************************************)
\* Optional[str] descriptions: None, the empty string, a text.
DescriptionShapes == {<<>>, <<"">>, <<"Proficiency in Python programming language">>}

\* A job like the first sample job, whose skills are named after the
\* catalog's skills in order and carry the given <<description, annotation>>
\* pairs.
DescribedJob(shapes) ==
  [SampleJob1 EXCEPT !.skills =
     [i \in DOMAIN shapes |->
        JobSkill(SampleSkills[i].name, shapes[i][1],
                 SampleSkills[i].yearsOfExperience, shapes[i][2])]]

\* Position IDs a job may carry: the keys of the static tables and others.
PositionIdInputs == {S_JDX001, S_JDX002, S_JDX003} \cup UnknownJobIds

\* A sample job under another position ID.
KeyedJob(job, id) == [job EXCEPT !.positionID = id]

InitTransform ==
  /\ \/ \E n \in 0..MaxSkills :
          \E shapes \in [1..n -> DescriptionShapes \X AnnotationShapes] :
            sample_jobs = <<DescribedJob(shapes)>>
     \/ \E job \in {SampleJob1, SampleJob2, SampleJob3}, id \in PositionIdInputs :
          sample_jobs = <<KeyedJob(job, id)>>
  /\ sample_skills = SampleSkills
  /\ served = [c \in Clients |-> <<>>]

\* transform_job_to_posting called on a job of the catalog; the call returns
\* the JobPosting.
call_transform_job_to_posting(c) ==
  \E i \in DOMAIN sample_jobs :
    /\ Serve(c, "transform_job_to_posting", sample_jobs[i].positionID,
             Ok(transform_job_to_posting(sample_jobs[i])))
    /\ UNCHANGED <<sample_jobs, sample_skills>>

NextTransform == call_transform_job_to_posting(1)

SpecTransform == InitTransform /\ [][NextTransform]_vars

(***************************************************************************)
(* C12. transform_job_to_posting maps each JobSkill 1:1 to an              *)
(* AnnotatedDefinedTerm of the same name.  As claimed: the term carries    *)
(* the description as a single-element list and the annotation flags       *)
(* copied into a ScaleAnnotation, for every skill, also one without        *)
(* description or annotation (C12_AsClaimed).  As the code has it: the     *)
(* descriptions are [description] for a non-empty description and None     *)
(* otherwise; the annotation is None for a skill without annotation and    *)
(* otherwise a ScaleAnnotation with required, preferred, requiredAtHiring  *)
(* copied verbatim and acquisitionDifficulty None, SkillAnnotation having  *)
(* no such field (C12_TermCarriesSkill).                                   *)
(***************************************************************************)
\* Client c called transform_job_to_posting and got a JobPosting.
Transformed(c) ==
  Handled(c, "transform_job_to_posting") /\ Response(c).status_code = 200

C12_AsClaimed ==
  \A c \in Clients :
    Transformed(c) =>
      LET job == CatalogJob(Request(c))
          posting == Response(c).body[1]
      IN /\ Len(posting.skills) = Len(job.skills)
         /\ \A i \in DOMAIN job.skills :
              LET skill == job.skills[i]
                  term == posting.skills[i]
              IN /\ term.name = skill.name
                 /\ term.descriptions # <<>>
                 /\ Len(term.descriptions[1]) = 1
                 /\ skill.description # <<>> =>
                      term.descriptions[1][1] = skill.description[1]
                 /\ term.annotation # <<>>
                 /\ skill.annotation # <<>> =>
                      /\ term.annotation[1].required = skill.annotation[1].required
                      /\ term.annotation[1].preferred = skill.annotation[1].preferred
                      /\ term.annotation[1].requiredAtHiring =
                           skill.annotation[1].requiredAtHiring

C12_TermCarriesSkill ==
  \A c \in Clients :
    Transformed(c) =>
      LET job == CatalogJob(Request(c))
          posting == Response(c).body[1]
      IN /\ Len(posting.skills) = Len(job.skills)
         /\ \A i \in DOMAIN job.skills :
              LET skill == job.skills[i]
                  term == posting.skills[i]
              IN /\ term.name = skill.name
                 /\ IF skill.description \in {<<>>, <<"">>}
                    THEN term.descriptions = <<>>
                    ELSE term.descriptions = <<<<skill.description[1]>>>>
                 /\ IF skill.annotation = <<>>
                    THEN term.annotation = <<>>
                    ELSE /\ term.annotation # <<>>
                         /\ term.annotation[1].required = skill.annotation[1].required
                         /\ term.annotation[1].preferred = skill.annotation[1].preferred
                         /\ term.annotation[1].requiredAtHiring =
                              skill.annotation[1].requiredAtHiring
                         /\ term.annotation[1].acquisitionDifficulty = <<>>

\* A posting of a job with a skill that has a description and an annotation
\* with three different flags, and a skill with neither.
C12_Witness ==
  \E c \in Clients :
    /\ Transformed(c)
    /\ LET job == CatalogJob(Request(c))
           posting == Response(c).body[1]
       IN /\ \E i \in DOMAIN job.skills :
               /\ job.skills[i].annotation =
                    <<SkillAnnotation(<<TRUE>>, <<FALSE>>, <<>>)>>
               /\ job.skills[i].description \notin {<<>>, <<"">>}
               /\ posting.skills[i].descriptions = <<<<job.skills[i].description[1]>>>>
               /\ posting.skills[i].annotation[1].preferred = <<FALSE>>
          /\ \E i \in DOMAIN job.skills :
               /\ job.skills[i].annotation = <<>>
               /\ job.skills[i].description = <<>>
               /\ posting.skills[i].descriptions = <<>>
               /\ posting.skills[i].annotation = <<>>

(***************************************************************************)
(* C13. In a GET /skills response the i-th assertion (counting from 1, in  *)
(* the job's skill order) has codedNotation = the upper-cased prefixes, of *)
(* at most two letters, of the first two words of the skill name (of the   *)
(* only word, for a one-word name), then '-' and i as a zero-padded        *)
(* 3-digit number.  So there is one assertion per job skill, numbered      *)
(* 1..n without gaps or repeats; validFrom is the job's dateCreated and    *)
(* validUntil is unset.                                                    *)
(***************************************************************************)
\* Positions where a word of name starts.
WordStarts(name) ==
  {i \in DOMAIN name : name[i] # " " /\ (i = 1 \/ name[i - 1] = " ")}

\* The characters of name that the notation's prefix is made of: the first
\* two of each of the first two words.
PrefixPositions(name) ==
  LET starts == WordStarts(name)
      firstTwo == {b \in starts : Cardinality({a \in starts : a < b}) < 2}
  IN {i \in DOMAIN name :
        \E b \in firstTwo : /\ i \in {b, b + 1}
                            /\ \A k \in b..i : name[k] # " "}

\* up is the upper-case form of ch.
IsUpperCaseOf(up, ch) ==
  /\ SameCharIgnoringCase(up, ch)
  /\ \A k \in 1..26 : up # LowerLetters[k]

\* The number a sequence of decimal digits denotes: -1 when ds is no such sequence.
DigitsValue(ds) ==
  IF \A k \in DOMAIN ds : \E d \in 1..10 : DigitChars[d] = ds[k]
  THEN LET val(k) == (CHOOSE d \in 1..10 : DigitChars[d] = ds[k]) - 1
       IN 100 * val(1) + 10 * val(2) + val(3)
  ELSE -1

\* notation is the coded notation the claim gives the i-th skill, named name.
IsCodedNotation(notation, name, i) ==
  LET positions == PrefixPositions(name)
      n == Cardinality(positions)
      \* the k-th smallest of positions
      pos(k) == CHOOSE p \in positions : Cardinality({q \in positions : q < p}) = k - 1
  IN /\ Len(notation) = n + 4
     /\ \A k \in 1..n : IsUpperCaseOf(notation[k], name[pos(k)])
     /\ notation[n + 1] = "-"
     /\ DigitsValue(SubSeq(notation, n + 2, n + 4)) = i

KnownPositionIds == {S_JDX001, S_JDX002, S_JDX003}

C14_UnknownPositionIdGivesEmptyLists ==
  \A c \in Clients :
    Handled(c, "transform_job_to_posting") =>
      LET job == CatalogJob(Request(c))
          posting == Response(c).body[1]
      IN /\ Response(c).status_code = 200
         /\ Response(c).body # <<>>
         /\ posting.name = <<job.name>>
         /\ posting.title = <<job.name>>
         /\ posting.positionID = <<job.positionID>>
         /\ posting.postingID = <<job.positionID>>
         /\ posting.hiringOrganization # <<>>
         /\ posting.hiringOrganization[1].legalName = <<job.hiringOrganization.legalName>>
         /\ posting.dateCreated = <<job.dateCreated>>
         /\ Len(posting.skills) = Len(job.skills)
         /\ \A i \in DOMAIN job.skills : posting.skills[i].name = job.skills[i].name
         /\ IF job.positionID \in KnownPositionIds
            THEN /\ posting.responsibilities # <<>>
                 /\ posting.requiredExperiences # <<>>
                 /\ posting.requiredCredentials # <<>>
            ELSE /\ posting.responsibilities = <<>>
                 /\ posting.requiredExperiences = <<>>
                 /\ posting.requiredCredentials = <<>>

\* The second sample job, re-keyed jdx-001, was transformed: its name and
\* skills arrive, the three lists are empty.
C14_Witness ==
  \E c \in Clients :
    /\ Transformed(c)
    /\ Request(c) = <<"j","d","x","-","0","0","1">>
    /\ CatalogJob(Request(c)).name = SampleJob2.name
    /\ LET posting == Response(c).body[1]
       IN /\ posting.positionID = <<Request(c)>>
          /\ posting.title = <<SampleJob2.name>>
          /\ Len(posting.skills) = 5
          /\ posting.responsibilities = <<>>
          /\ posting.requiredExperiences = <<>>
          /\ posting.requiredCredentials = <<>>

(***************************************************************************)
(* C15. The partition of GET /api/jobs/{id}/skills and the status          *)
(* derivation of GET /skills agree, for the same job, on every skill and   *)
(* every annotation shape, preferred and required both true included: a    *)
(* skill is in recommended_skills exactly when its assertion is            *)
(* (Provisional, Developing), and every skill in required_skills has the   *)
(* validation status Validated.                                            *)
(***************************************************************************)
\* The two responses for one job agree in the sense of the claim.
PartitionAgreesWithAssertions(job, partition, assertions) ==
  /\ Len(assertions) = Len(job.skills)
  /\ \A i \in DOMAIN job.skills :
       LET provisional == /\ assertions[i].validationStatus = "Provisional"
                          /\ assertions[i].proficiencyLevel.name = "Developing"
       IN /\ InList(job.skills[i], partition.recommended_skills) <=> provisional
          /\ InList(job.skills[i], partition.required_skills) =>
               assertions[i].validationStatus = "Validated"

C15_PartitionAgreesWithStatus ==
  \A c \in Clients :
    /\ (Handled(c, "get_job_with_skills_architecture") /\ Response(c).status_code = 200) =>
         LET job == CatalogJob(Request(c))
             other == get_skills_api_response(sample_jobs, job.positionID)
         IN /\ other.status_code = 200
            /\ PartitionAgreesWithAssertions(job, Response(c).body[1],
                                             other.body[1].skills)
    /\ (Handled(c, "get_skills_api") /\ Response(c).status_code = 200) =>
         LET job == CatalogJob(AfterFinalSlash(Request(c)))
             other == get_job_with_skills_architecture_response(sample_jobs,
                                                                job.positionID)
         IN /\ other.status_code = 200
            /\ PartitionAgreesWithAssertions(job, other.body[1],
                                             Response(c).body[1].skills)

\* The partition of a job was served whose first skill is required and
\* preferred (required list, Validated) and whose second is preferred only
\* (recommended list, Provisional / Developing).
C15_Witness ==
  \E c \in Clients :
    /\ Handled(c, "get_job_with_skills_architecture")
    /\ Response(c).status_code = 200
    /\ LET job == CatalogJob(Request(c))
           body == Response(c).body[1]
           assertions == get_skills_api_response(sample_jobs, job.positionID).body[1].skills
       IN /\ Len(job.skills) = 2
          /\ job.skills[1].annotation = <<SkillAnnotation(<<TRUE>>, <<TRUE>>, <<FALSE>>)>>
          /\ job.skills[2].annotation = <<SkillAnnotation(<<>>, <<TRUE>>, <<TRUE>>)>>
          /\ body.required_skills = <<job.skills[1]>>
          /\ body.recommended_skills = <<job.skills[2]>>
          /\ assertions[1].validationStatus = "Validated"
          /\ assertions[2].validationStatus = "Provisional"
          /\ assertions[2].proficiencyLevel.name = "Developing"

====
